---- MODULE Spec2Model ----
(***************************************************************************)
(* A model of WebUtils (src/src/WebUtils/core/core.py): the fluent         *)
(* builders (HeaderBuilder, HTTPResponseBuilder), the HTTPResponse record  *)
(* and the verb entry points of HTTPService, which run one aiohttp         *)
(* exchange inside a scoped ClientSession and assemble an HTTPResponse.    *)
(*                                                                         *)
(* Python values that the code inspects by type (isinstance, truthiness)   *)
(* are records [kind, repr]: the Python type and the value's literal text. *)
(* Timestamps are clock ticks; a duration is a difference of ticks.        *)
(***************************************************************************)
EXTENDS Integers, Sequences, FiniteSets, TLC

VARIABLES
    \* ---- one HTTPService verb call (the coroutine __get__, __post__, ...)
    pc,          \* position of the call
    verb,        \* the verb entry point that was called
    url,         \* its url argument
    headers,     \* its headers argument (the default {} when omitted)
    builder,     \* the call's HTTPResponseBuilder._configuration
    sessions,    \* the aiohttp.ClientSession objects that are open
    opened,      \* how many sessions the call has opened
    exchanges,   \* how many requests the call has issued to the transport
    response,    \* <<>> or <<the aiohttp.ClientResponse received>>
    builds,      \* how many times the call has invoked builder.build()
    constructed, \* the HTTPResponse objects the call has constructed
    result,      \* <<>> or <<the HTTPResponse returned to the caller>>
    error,       \* <<>> or <<the exception raised to the caller>>
    clock,       \* what datetime.now() returns
    \* ---- a standalone HTTPResponseBuilder driven by a caller
    configuration, \* HTTPResponseBuilder._configuration
    lastArg,       \* per field, the argument of the last with_X call made
    preBuild,      \* the configuration as it was when build() was last called
    outcomes,      \* outcomes of the build() calls made since the last with_X
    \* ---- HeaderBuilder objects driven by a caller
    hb,            \* per HeaderBuilder, its _configuration
    hbAdded,       \* per HeaderBuilder, the last value added for each key
    hbOp,          \* the last HeaderBuilder operation: [op, on]
    hbReturned,    \* what it returned: a reference [kind, ref] to an object
    hbHeld,        \* <<>> or <<the mapping a caller keeps from a build()>>
    \* ---- an Authorization object driven by a caller
    auPassword,    \* Authorization._password
    auUsername,    \* Authorization._username
    auArgs,        \* the positional arguments the object was constructed with
    auCall,        \* the last call made on the object: [name, arg]
    auOutcome,     \* what that call returned or raised
    \* ---- a URLBuilder object driven by a caller
    ubUrl,         \* URLBuilder._configuration["url"]
    ubBase,        \* the url the builder was constructed with
    ubCalls,       \* the last two with_endpoint calls: [value, returned]
    \* ---- an HTTPResponse object driven by a caller
    rsp,           \* <<>> or <<the HTTPResponse object>>
    rspArgs,       \* the arguments the object was constructed with
    rspCall,       \* the last method called on it and what it returned
    \* ---- the objects verb calls create and use
    objHeap,       \* how many objects have been created
    objCalls,      \* per verb call made, the identities of its objects
    objPc,         \* where the last of these calls stands
    \* ---- one evaluation of HTTPService._handle_content_type
    content_type,  \* the declared content type handed to the dispatch
    strategy       \* the read method of the response that the dispatch awaited

svcVars == <<pc, verb, url, headers, builder, sessions, opened, exchanges,
             response, builds, constructed, result, error, clock>>
rbVars == <<configuration, lastArg, preBuild, outcomes>>
hbVars == <<hb, hbAdded, hbOp, hbReturned, hbHeld>>
ctVars == <<content_type, strategy>>
auVars == <<auPassword, auUsername, auArgs, auCall, auOutcome>>
ubVars == <<ubUrl, ubBase, ubCalls>>
rspVars == <<rsp, rspArgs, rspCall>>
objVars == <<objHeap, objCalls, objPc>>
vars == <<svcVars, rbVars, hbVars, ctVars, auVars, ubVars, rspVars, objVars>>

\* The largest value of the clock.
MaxClock == 2
\* The largest timestamp a caller hands to with_start / with_end.
MaxTime == 1
\* The largest number of characters of a username and of a password.
MaxLen == 2
\* The largest number of verb calls whose objects are followed.
MaxCalls == 2

(***************************************************************************)
(* Python values                                                           *)
(***************************************************************************)
PyValue(kind, repr) == [kind |-> kind, repr |-> repr]
EmptyDict == PyValue("dict", "{}")
isinstance_dict(value) == value.kind = "dict"
\* The single-entry dict {"body": value}.
BodyDict(value) == PyValue("dict", "{'body': " \o value.repr \o "}")
\* Python truthiness of a dict: every dict but the empty one.
truthy(value) == value.repr # "{}"

startswith(s, prefix) ==
    /\ Len(s) >= Len(prefix)
    /\ SubSeq(s, 1, Len(prefix)) = prefix

(***************************************************************************)
(* HTTPMethod, HTTPResponse, HTTPResponseFactory                           *)
(***************************************************************************)
HTTPMethod == {"GET", "POST", "PUT", "DELETE", "PATCH", "HEAD", "OPTIONS", "TRACE"}

\* A constructor that never stores a negative duration.
HTTPResponse_duration_clamped(end, hdrs, message, method, start, status, type, u, body) ==
    [body     |-> IF body.repr # "{}" THEN body ELSE [kind |-> "dict", repr |-> "{}"],
     end      |-> end,
     headers  |-> hdrs,
     message  |-> message,
     method   |-> method,
     start    |-> start,
     status   |-> status,
     type     |-> type,
     url      |-> u,
     duration |-> IF end >= start THEN end - start ELSE 0]

HTTPResponse(end, hdrs, message, method, start, status, type, u, body) ==
    [body     |-> IF truthy(body) THEN body ELSE EmptyDict,
     end      |-> end,
     headers  |-> hdrs,
     message  |-> message,
     method   |-> method,
     start    |-> start,
     status   |-> status,
     type     |-> type,
     url      |-> u,
     duration |-> end - start]

\* empty() taking 205 Reset Content for empty too.
empty_no_content_or_reset(r) == r.status \in {204, 205}

empty(r) == r.status = 204

\* success() leaving 204 No Content out.
success_excluding_no_content(r) == r.status >= 200 /\ r.status < 300 /\ r.status # 204

success(r) == r.status >= 200 /\ r.status < 300

create_response(end, hdrs, message, method, start, status, type, u, body) ==
    HTTPResponse(end, hdrs, message, method, start, status, type, u, body)

\* The members of the enum with their values, and member.value.
HTTPMethodMembers ==
    [GET |-> "GET", POST |-> "POST", PUT |-> "PUT", DELETE |-> "DELETE",
     PATCH |-> "PATCH", HEAD |-> "HEAD", OPTIONS |-> "OPTIONS", TRACE |-> "TRACE"]
\* The text of a member as Enum.__str__ prints it when it is not overridden.
HTTPMethod_qualified_name(member) == "HTTPMethod." \o member
HTTPMethod_value(member) == HTTPMethodMembers[member]

\* A start or end time is a number of ticks of the clock after the datetime
\* Epoch, half a second before the end of a year; a second has
\* TicksPerSecond ticks.
TicksPerSecond == 2
Epoch ==
    [year |-> 2024, month |-> 12, day |-> 31, hour |-> 23, minute |-> 59,
     second |-> 59, microsecond |-> 500000]

DaysInMonth(year, month) ==
    IF month = 2
    THEN IF (year % 4 = 0 /\ year % 100 # 0) \/ year % 400 = 0 THEN 29 ELSE 28
    ELSE IF month \in {4, 6, 9, 11} THEN 30 ELSE 31

\* datetime + timedelta(days=n)
RECURSIVE PlusDays(_, _)
PlusDays(dt, n) ==
    IF n = 0 THEN dt
    ELSE IF dt.day < DaysInMonth(dt.year, dt.month)
    THEN PlusDays([dt EXCEPT !.day = dt.day + 1], n - 1)
    ELSE IF dt.month < 12
    THEN PlusDays([dt EXCEPT !.day = 1, !.month = dt.month + 1], n - 1)
    ELSE PlusDays([dt EXCEPT !.day = 1, !.month = 1, !.year = dt.year + 1], n - 1)

\* datetime + timedelta(microseconds=n)
PlusMicroseconds(dt, n) ==
    LET us == dt.microsecond + n
        s == dt.second + (us \div 1000000)
        m == dt.minute + (s \div 60)
        h == dt.hour + (m \div 60)
    IN  PlusDays([dt EXCEPT !.microsecond = us % 1000000, !.second = s % 60,
                            !.minute = m % 60, !.hour = h % 24], h \div 24)

\* The datetime object a time stands for.
datetime(ticks) == PlusMicroseconds(Epoch, ticks * (1000000 \div TicksPerSecond))

\* The decimal digits of a number, zero-padded to two and to four places.
Digits == "0123456789"
Pad2(n) == SubSeq(Digits, (n \div 10) + 1, (n \div 10) + 1)
               \o SubSeq(Digits, (n % 10) + 1, (n % 10) + 1)
Pad4(n) == Pad2(n \div 100) \o Pad2(n % 100)

\* strftime rounding to the nearest second instead of dropping the fraction.
strftime_rounding(dt) ==
    LET r == IF dt.microsecond >= 500000 THEN PlusMicroseconds(dt, 500000) ELSE dt
    IN  Pad4(r.year) \o "-" \o Pad2(r.month) \o "-" \o Pad2(r.day) \o " "
            \o Pad2(r.hour) \o ":" \o Pad2(r.minute) \o ":" \o Pad2(r.second)

\* datetime.strftime("%Y-%m-%d %H:%M:%S"), for a year of four digits.
strftime(dt) ==
    Pad4(dt.year) \o "-" \o Pad2(dt.month) \o "-" \o Pad2(dt.day) \o " "
        \o Pad2(dt.hour) \o ":" \o Pad2(dt.minute) \o ":" \o Pad2(dt.second)

\* HTTPResponse.dict()
dict(r) ==
    [body     |-> r.body,
     duration |-> r.duration,
     end      |-> strftime(datetime(r.end)),
     headers  |-> r.headers,
     message  |-> r.message,
     method   |-> HTTPMethod_value(r.method),
     start    |-> strftime(datetime(r.start)),
     status   |-> r.status,
     type     |-> r.type,
     url      |-> r.url]

(***************************************************************************)
(* HTTPResponseBuilder                                                     *)
(***************************************************************************)
\* self._configuration[key] = value
setitem(c, key, value) ==
    [k \in DOMAIN c \cup {key} |-> IF k = key THEN value ELSE c[k]]

\* HTTPResponseBuilder.__init__: the configuration {}.
NewConfiguration == [k \in {} |-> 0]

\* with_body storing every value as it is.
with_body_never_wrapping(c, value) == setitem(c, "body", value)
\* with_body wrapping every value, a mapping included.
with_body_always_wrapping(c, value) == setitem(c, "body", BodyDict(value))
with_body(c, value) ==
    setitem(c, "body", IF isinstance_dict(value) THEN value ELSE BodyDict(value))
\* with_end storing under the key of with_start.
with_end_under_start(c, value) == setitem(c, "start", value)
with_end(c, value) == setitem(c, "end", value)
with_headers(c, value) == setitem(c, "headers", value)
with_message(c, value) == setitem(c, "message", value)
with_method(c, value) == setitem(c, "method", value)
with_start(c, value) == setitem(c, "start", value)
with_status(c, value) == setitem(c, "status", value)
with_type(c, value) == setitem(c, "type", value)
with_url(c, value) == setitem(c, "url", value)

\* The keys build() subscripts, in the order Python evaluates the arguments.
RequiredFields ==
    <<"end", "headers", "message", "method", "start", "status", "type", "url">>

\* The first key whose subscription raises KeyError, when there is one.
MissingKeys(c) == {i \in 1..Len(RequiredFields) : RequiredFields[i] \notin DOMAIN c}
FirstMissing(c) ==
    RequiredFields[CHOOSE i \in MissingKeys(c) : \A j \in MissingKeys(c) : i <= j]

\* build() reading the status with a default instead of subscripting it.
build_defaulting_status(c) ==
    LET d == IF "status" \in DOMAIN c THEN c ELSE setitem(c, "status", 200)
    IN  IF MissingKeys(d) # {}
        THEN [raised |-> TRUE, key |-> FirstMissing(d), response |-> <<>>]
        ELSE [raised |-> FALSE, key |-> "",
              response |-> <<create_response(
                  d["end"], d["headers"], d["message"], d["method"], d["start"],
                  d["status"], d["type"], d["url"],
                  IF "body" \in DOMAIN d THEN d["body"] ELSE EmptyDict)>>]

\* The outcome of build(): the KeyError re-raised, or the HTTPResponse.
build(c) ==
    IF MissingKeys(c) # {}
    THEN [raised |-> TRUE, key |-> FirstMissing(c), response |-> <<>>]
    ELSE [raised |-> FALSE, key |-> "",
          response |-> <<create_response(
              c["end"], c["headers"], c["message"], c["method"], c["start"],
              c["status"], c["type"], c["url"],
              IF "body" \in DOMAIN c THEN c["body"] ELSE EmptyDict)>>]

\* build() consuming the configuration.
build_configuration_cleared(c) == NewConfiguration

\* What build() leaves in self._configuration.
build_configuration(c) == c

(***************************************************************************)
(* The transport: aiohttp.ClientSession and aiohttp.ClientResponse         *)
(***************************************************************************)
\* Status codes a server sends and aiohttp hands to the caller.
Statuses == {200, 201, 204, 299, 300, 304, 399, 400, 404, 500}

ReasonPhrase(status) ==
    CASE status = 200 -> "OK"
      [] status = 201 -> "Created"
      [] status = 204 -> "No Content"
      [] status = 300 -> "Multiple Choices"
      [] status = 304 -> "Not Modified"
      [] status = 400 -> "Bad Request"
      [] status = 404 -> "Not Found"
      [] status = 500 -> "Internal Server Error"
      [] OTHER -> "Unassigned"

\* Content types a response declares (ClientResponse.content_type).
ContentTypes ==
    {"application/json", "application/xml", "application/octet-stream",
     "image/png", "text/html"}

\* Bodies on the wire: two JSON objects, a JSON array, text that is no JSON,
\* and bytes that are no UTF-8 text.
BinaryPayload == "\\xff"
Payloads == {"{\"id\": 1}", "{}", "[1]", "hello", BinaryPayload}

TransportResponses ==
    {[status |-> s, reason |-> ReasonPhrase(s), content_type |-> t, payload |-> p] :
        s \in Statuses, t \in ContentTypes, p \in Payloads}

\* ClientResponse.raise_for_status() raises ClientResponseError unless
\* ClientResponse.ok, which aiohttp defines as 400 > status.
raise_for_status(r) == r.status >= 400

\* The outcome of awaiting a read method of the response: the value, or the
\* exception the method raises.
Decoded(value) == [raised |-> "", value |-> <<value>>]
DecodeError(type) == [raised |-> type, value |-> <<>>]

\* ClientResponse.json(): json.loads of the body text.
response_json(r) ==
    CASE r.payload = "{\"id\": 1}" -> Decoded(PyValue("dict", "{'id': 1}"))
      [] r.payload = "{}" -> Decoded(PyValue("dict", "{}"))
      [] r.payload = "[1]" -> Decoded(PyValue("list", "[1]"))
      [] r.payload = BinaryPayload -> DecodeError("UnicodeDecodeError")
      [] OTHER -> DecodeError("JSONDecodeError")

\* ClientResponse.text(): the body decoded to str.
response_text(r) ==
    IF r.payload = BinaryPayload
    THEN DecodeError("UnicodeDecodeError")
    ELSE Decoded(PyValue("str", "'" \o r.payload \o "'"))

\* ClientResponse.read(): the body's bytes.
response_read(r) == Decoded(PyValue("bytes", "b'" \o r.payload \o "'"))

(***************************************************************************)
(* HTTPService                                                             *)
(***************************************************************************)
\* The dispatch testing the prefix "image" without its slash.
handle_content_type_image_prefix(ct) ==
    IF ct = "application/json" THEN "json"
    ELSE IF ct = "application/xml" THEN "text"
    ELSE IF ct = "application/octet-stream" THEN "read"
    ELSE IF startswith(ct, "image") THEN "read"
    ELSE "text"

\* The read method _handle_content_type awaits for a declared content type.
handle_content_type(ct) ==
    IF ct = "application/json" THEN "json"
    ELSE IF ct = "application/xml" THEN "text"
    ELSE IF ct = "application/octet-stream" THEN "read"
    ELSE IF startswith(ct, "image/") THEN "read"
    ELSE "text"

\* HTTPService._handle_content_type(content_type, response)
handle_response(ct, r) ==
    CASE handle_content_type(ct) = "json" -> response_json(r)
      [] handle_content_type(ct) = "read" -> response_read(r)
      [] OTHER -> response_text(r)

\* The verb entry points of HTTPService (HEAD has none).
Verbs == {"GET", "POST", "PUT", "DELETE", "PATCH", "OPTIONS", "TRACE"}
\* The verbs whose entry point takes a headers argument.
HeaderVerbs == {"POST", "PUT", "DELETE", "PATCH", "OPTIONS"}

Urls == {"http://x/a", "http://x/b"}
HeaderArgs == {EmptyDict, PyValue("dict", "{'Accept': '*/*'}")}

Exception(type, status, text) == [type |-> type, status |-> status, text |-> text]

\* A coroutine that has not recorded the start time when it opens the session.
prepare_without_start(v, u, h, now) ==
    LET named == with_url(with_method(NewConfiguration, v), u)
    IN  IF v = "GET" THEN with_headers(named, EmptyDict)
        ELSE IF v = "TRACE" THEN named
        ELSE with_headers(named, h)

\* The builder steps of a verb coroutine before it opens the session.
prepare(v, u, h, now) ==
    LET named == with_url(with_method(NewConfiguration, v), u)
    IN  IF v = "GET" THEN with_start(with_headers(named, EmptyDict), now)
        ELSE IF v = "TRACE" THEN with_start(named, now)
        ELSE with_start(with_headers(named, h), now)

\* The coroutine recording status, message and type before raise_for_status.
received_recording_first(v, c, r) ==
    LET recorded == with_type(with_message(with_status(c, r.status), r.reason),
                              r.content_type)
    IN  IF raise_for_status(r)
        THEN [error |-> <<Exception("ClientResponseError", r.status, r.reason)>>,
              configuration |-> recorded]
        ELSE IF v = "GET"
        THEN [error |-> <<>>, configuration |-> recorded]
        ELSE [error |-> <<Exception("AttributeError", 0, "JSON")>>,
              configuration |-> with_status(c, r.status)]

\* The steps from the receipt of the response to the await of the body: the
\* exception raised, if any, and the builder's configuration.
received(v, c, r) ==
    IF raise_for_status(r)
    THEN [error |-> <<Exception("ClientResponseError", r.status, r.reason)>>,
          configuration |-> c]
    ELSE IF v = "GET"
    THEN [error |-> <<>>,
          configuration |->
              with_type(with_message(with_status(c, r.status), r.reason),
                        r.content_type)]
    \* str.JSON: the builtin str has no attribute JSON.
    ELSE [error |-> <<Exception("AttributeError", 0, "JSON")>>,
          configuration |-> with_status(c, r.status)]

\* The steps from the await of the body to the end of the response block.
decoded(c, r, now) ==
    LET body == handle_response(r.content_type, r)
    IN  IF body.raised # ""
        THEN [error |-> <<Exception(body.raised, 0, "")>>, configuration |-> c]
        ELSE [error |-> <<>>,
              configuration |-> with_end(with_body(c, body.value[1]), now)]

\* A session closed by a call at the end of the block instead of by the block.
aexit_skipped_when_raising(open, session, raising) ==
    IF raising THEN open ELSE open \ {session}

\* ClientSession.__aexit__: the sessions open after the block is left, with an
\* exception in flight or without.
aexit(open, session, raising) == open \ {session}

Idle == pc \in {"idle", "returned", "raised"}

\* A verb call touches no builder of the caller's.
ServiceOnly == UNCHANGED <<rbVars, hbVars, ctVars, auVars, ubVars, rspVars, objVars>>

\* HTTPService.<verb>(url, headers): asyncio.run starts the coroutine.
Call(v, u, h) ==
    /\ Idle
    /\ pc' = "prepared"
    /\ verb' = v
    /\ url' = u
    /\ headers' = h
    /\ builder' = prepare(v, u, h, clock)
    /\ opened' = 0
    /\ exchanges' = 0
    /\ response' = <<>>
    /\ builds' = 0
    /\ constructed' = <<>>
    /\ result' = <<>>
    /\ error' = <<>>
    /\ UNCHANGED <<sessions, clock>>
    /\ ServiceOnly

\* async with aiohttp.ClientSession() as session
ClientSession_aenter ==
    /\ pc = "prepared"
    /\ pc' = "session"
    /\ opened' = opened + 1
    /\ sessions' = sessions \cup {opened + 1}
    /\ UNCHANGED <<verb, url, headers, builder, exchanges, response, builds,
                   constructed, result, error, clock>>
    /\ ServiceOnly

\* async with session.<verb>(url, ...) as response: the exchange completes.
Request(r) ==
    /\ pc = "session"
    /\ pc' = "response"
    /\ exchanges' = exchanges + 1
    /\ response' = <<r>>
    /\ UNCHANGED <<verb, url, headers, builder, sessions, opened, builds,
                   constructed, result, error, clock>>
    /\ ServiceOnly

\* A transport failure answered by issuing the request again.
RequestFails_retrying ==
    /\ pc = "session"
    /\ pc' = "session"
    /\ exchanges' = exchanges + 1
    /\ UNCHANGED <<verb, url, headers, builder, sessions, opened, response,
                   builds, constructed, result, error, clock>>
    /\ UNCHANGED <<rbVars, hbVars, ctVars, auVars, ubVars, rspVars, objVars>>

\* ... or the transport fails (connection refused, DNS, TLS).
RequestFails ==
    /\ pc = "session"
    /\ pc' = "unwinding"
    /\ exchanges' = exchanges + 1
    /\ error' = <<Exception("ClientConnectionError", 0, "")>>
    /\ UNCHANGED <<verb, url, headers, builder, sessions, opened, response,
                   builds, constructed, result, clock>>
    /\ ServiceOnly

\* ... or, for TRACE, the session has no method of that name: aiohttp's
\* ClientSession defines get, options, head, post, put, patch and delete, so
\* session.trace raises AttributeError before anything is sent, unless the
\* installed transport provides it (then Request applies).
RequestUnsupported ==
    /\ pc = "session"
    /\ verb = "TRACE"
    /\ pc' = "unwinding"
    /\ error' = <<Exception("AttributeError", 0, "trace")>>
    /\ UNCHANGED <<verb, url, headers, builder, sessions, opened, exchanges,
                   response, builds, constructed, result, clock>>
    /\ ServiceOnly

\* raise_for_status and the builder steps up to the await of the body.
Receive ==
    /\ pc = "response"
    /\ LET step == received(verb, builder, response[1])
       IN  /\ builder' = step.configuration
           /\ error' = step.error
           /\ pc' = IF step.error = <<>> THEN "decoding" ELSE "unwinding"
    /\ UNCHANGED <<verb, url, headers, sessions, opened, exchanges, response,
                   builds, constructed, result, clock>>
    /\ ServiceOnly

\* The body is read and decoded; with_body, with_end.
Decode ==
    /\ pc = "decoding"
    /\ LET step == decoded(builder, response[1], clock)
       IN  /\ builder' = step.configuration
           /\ error' = step.error
           /\ pc' = IF step.error = <<>> THEN "recorded" ELSE "unwinding"
    /\ UNCHANGED <<verb, url, headers, sessions, opened, exchanges, response,
                   builds, constructed, result, clock>>
    /\ ServiceOnly

\* The async with blocks are left, normally or by an exception.
ClientSession_aexit ==
    /\ pc \in {"recorded", "unwinding"}
    /\ sessions' = aexit(sessions, opened, error # <<>>)
    /\ pc' = IF error = <<>> THEN "closed" ELSE "raised"
    /\ UNCHANGED <<verb, url, headers, builder, opened, exchanges, response,
                   builds, constructed, result, error, clock>>
    /\ ServiceOnly

\* return builder.build()
Build ==
    /\ pc = "closed"
    /\ builds' = builds + 1
    /\ LET o == build(builder)
       IN  /\ builder' = build_configuration(builder)
           /\ constructed' = constructed \o o.response
           /\ result' = o.response
           /\ error' = IF o.raised THEN <<Exception("KeyError", 0, o.key)>> ELSE <<>>
           /\ pc' = IF o.raised THEN "raised" ELSE "returned"
    /\ UNCHANGED <<verb, url, headers, sessions, opened, exchanges, response, clock>>
    /\ ServiceOnly

\* Time passes.
Tick ==
    /\ clock < MaxClock
    /\ clock' = clock + 1
    /\ UNCHANGED <<pc, verb, url, headers, builder, sessions, opened, exchanges,
                   response, builds, constructed, result, error>>
    /\ ServiceOnly

ServiceInit ==
    /\ pc = "idle"
    /\ verb = "GET"
    /\ url = "http://x/a"
    /\ headers = EmptyDict
    /\ builder = NewConfiguration
    /\ sessions = {}
    /\ opened = 0
    /\ exchanges = 0
    /\ response = <<>>
    /\ builds = 0
    /\ constructed = <<>>
    /\ result = <<>>
    /\ error = <<>>
    /\ clock = 0

RbIdle ==
    /\ configuration = NewConfiguration
    /\ lastArg = NewConfiguration
    /\ preBuild = NewConfiguration
    /\ outcomes = <<>>

HbIdle ==
    /\ hb = [b \in {"b1", "b2"} |-> NewConfiguration]
    /\ hbAdded = [b \in {"b1", "b2"} |-> NewConfiguration]
    /\ hbOp = [op |-> "init", on |-> "b1"]
    /\ hbReturned = [kind |-> "none", ref |-> "b1"]
    /\ hbHeld = <<>>

CtIdle ==
    /\ content_type = ""
    /\ strategy = ""

\* No Authorization constructed yet.
AuIdle ==
    /\ auPassword = <<>>
    /\ auUsername = <<>>
    /\ auArgs = <<>>
    /\ auCall = [name |-> "", arg |-> ""]
    /\ auOutcome = [raised |-> "", text |-> "", value |-> <<>>]

\* URLBuilder(""), no call made on it yet.
UbIdle ==
    /\ ubUrl = ""
    /\ ubBase = ""
    /\ ubCalls = <<>>

\* No HTTPResponse constructed yet.
RspIdle ==
    /\ rsp = <<>>
    /\ rspArgs = <<>>
    /\ rspCall = [name |-> "", value |-> <<>>]

\* The mappings the def statements of the verbs create once, when the class
\* body runs, as the default values of their data and headers parameters
\* (data: Dict[str, Any] = {}, headers: Dict[str, Any] = {}).
DefaultParameters ==
    <<[verb |-> "POST", parameter |-> "data"], [verb |-> "POST", parameter |-> "headers"],
      [verb |-> "PUT", parameter |-> "data"], [verb |-> "PUT", parameter |-> "headers"],
      [verb |-> "DELETE", parameter |-> "data"], [verb |-> "DELETE", parameter |-> "headers"],
      [verb |-> "PATCH", parameter |-> "data"], [verb |-> "PATCH", parameter |-> "headers"],
      [verb |-> "OPTIONS", parameter |-> "headers"]>>

\* The class is defined, no verb call made yet.
ObjIdle ==
    /\ objHeap = Len(DefaultParameters)
    /\ objCalls = <<>>
    /\ objPc = "idle"

Init ==
    /\ ServiceInit /\ RbIdle /\ HbIdle /\ CtIdle /\ AuIdle /\ UbIdle /\ RspIdle
    /\ ObjIdle

Next ==
    \/ \E v \in Verbs, u \in Urls, h \in HeaderArgs :
          /\ v \notin HeaderVerbs => h = EmptyDict
          /\ Call(v, u, h)
    \/ ClientSession_aenter
    \/ \E r \in TransportResponses : Request(r)
    \/ RequestFails
    \/ RequestUnsupported
    \/ Receive
    \/ Decode
    \/ ClientSession_aexit
    \/ Build
    \/ Tick

\* HTTPService: verb calls made one after another.
Spec == Init /\ [][Next]_vars

(***************************************************************************)
(* A caller driving one HTTPResponseBuilder                                *)
(***************************************************************************)
\* The arguments the caller hands to the with_X methods.
BodyArgs == {EmptyDict, PyValue("dict", "{'id': 1}"), PyValue("str", "'hello'")}
TimeArgs == 0..MaxTime
MessageArgs == {"OK"}
MethodArgs == {"GET"}
StatusArgs == {201, 204}
TypeArgs == {"application/json", "text/html"}
UrlArgs == {"http://x/a"}

BuilderOnly == UNCHANGED <<svcVars, hbVars, ctVars, auVars, ubVars, rspVars, objVars>>

\* A with_X call: the method's effect on the configuration, and the record of
\* the argument it was called with.
With(field, value, after) ==
    /\ configuration' = after
    /\ lastArg' = setitem(lastArg, field, value)
    /\ preBuild' = NewConfiguration
    /\ outcomes' = <<>>
    /\ BuilderOnly

WithBody(value) == With("body", value, with_body(configuration, value))
WithEnd(value) == With("end", value, with_end(configuration, value))
WithHeaders(value) == With("headers", value, with_headers(configuration, value))
WithMessage(value) == With("message", value, with_message(configuration, value))
WithMethod(value) == With("method", value, with_method(configuration, value))
WithStart(value) == With("start", value, with_start(configuration, value))
WithStatus(value) == With("status", value, with_status(configuration, value))
WithType(value) == With("type", value, with_type(configuration, value))
WithUrl(value) == With("url", value, with_url(configuration, value))

\* A build() call: its outcome is kept with that of the build() before it,
\* when no with_X call came in between.
BuildCall ==
    /\ preBuild' = configuration
    /\ configuration' = build_configuration(configuration)
    /\ outcomes' = (IF Len(outcomes) = 2 THEN Tail(outcomes) ELSE outcomes)
                       \o <<build(configuration)>>
    /\ UNCHANGED lastArg
    /\ BuilderOnly

BuilderNext ==
    \/ \E value \in BodyArgs : WithBody(value)
    \/ \E value \in TimeArgs : WithEnd(value)
    \/ \E value \in HeaderArgs : WithHeaders(value)
    \/ \E value \in MessageArgs : WithMessage(value)
    \/ \E value \in MethodArgs : WithMethod(value)
    \/ \E value \in TimeArgs : WithStart(value)
    \/ \E value \in StatusArgs : WithStatus(value)
    \/ \E value \in TypeArgs : WithType(value)
    \/ \E value \in UrlArgs : WithUrl(value)
    \/ BuildCall

\* HTTPResponseBuilder: with_X and build() calls in any order.
SpecBuilder == Init /\ [][BuilderNext]_vars

(***************************************************************************)
(* A caller driving HeaderBuilder objects                                  *)
(***************************************************************************)
HeaderBuilders == {"b1", "b2"}
HeaderKeys == {"A", "B"}
HeaderValues == {"1", "2", "3"}

HeaderOnly == UNCHANGED <<svcVars, rbVars, ctVars, auVars, ubVars, rspVars, objVars>>

\* add keeping the first value of a key (setdefault).
add_configuration_keeping_first(c, key, value) ==
    IF key \in DOMAIN c THEN c ELSE setitem(c, key, value)

\* HeaderBuilder.add: the configuration after self._configuration[key] = value
add_configuration(c, key, value) == setitem(c, key, value)
\* ... and the object add returns, called on the builder self.
add_return(self) == [kind |-> "builder", ref |-> self]

\* HeaderBuilder.build returns self._configuration, the builder's own dict.
build_return(self) == [kind |-> "mapping", ref |-> self]

\* The mapping a returned reference denotes.
Mapping(returned) == hb[returned.ref]

\* HeaderBuilder(): a fresh builder takes the place of b.
HeaderBuilder_init(b) ==
    /\ hb' = [hb EXCEPT ![b] = NewConfiguration]
    /\ hbAdded' = [hbAdded EXCEPT ![b] = NewConfiguration]
    /\ hbOp' = [op |-> "init", on |-> b]
    /\ hbReturned' = [kind |-> "none", ref |-> b]
    \* the builder replaced and the mapping it handed out are dropped
    /\ hbHeld' = IF hbHeld # <<>> /\ hbHeld[1].returned.ref = b THEN <<>> ELSE hbHeld
    /\ HeaderOnly

HeaderBuilder_add(b, key, value) ==
    /\ hb' = [hb EXCEPT ![b] = add_configuration(hb[b], key, value)]
    /\ hbAdded' = [hbAdded EXCEPT ![b] = setitem(hbAdded[b], key, value)]
    /\ hbOp' = [op |-> "add", on |-> b]
    /\ hbReturned' = add_return(b)
    /\ UNCHANGED hbHeld
    /\ HeaderOnly

HeaderBuilder_build(b) ==
    /\ hbOp' = [op |-> "build", on |-> b]
    /\ hbReturned' = build_return(b)
    \* the caller keeps what build() returned, and remembers what it held
    /\ hbHeld' = <<[returned |-> build_return(b), seen |-> hb[build_return(b).ref]]>>
    /\ UNCHANGED <<hb, hbAdded>>
    /\ HeaderOnly

HeaderNext ==
    \/ \E b \in HeaderBuilders : HeaderBuilder_init(b)
    \/ \E b \in HeaderBuilders, key \in HeaderKeys, value \in HeaderValues :
          HeaderBuilder_add(b, key, value)
    \/ \E b \in HeaderBuilders : HeaderBuilder_build(b)

\* HeaderBuilder: add and build() calls in any order on two builders.
SpecHeader == Init /\ [][HeaderNext]_vars

(***************************************************************************)
(* One evaluation of the content-type dispatch                             *)
(***************************************************************************)
\* Declared content types: a media type before the slash, a subtype after.
MediaTypes ==
    {"application/", "image/", "text/", "image", "Image/", "x-image/", "/", ""}
SubTypes ==
    {"json", "xml", "octet-stream", "png", "jsonx", "image/png", "x-json", ""}
DeclaredTypes == {m \o t : m \in MediaTypes, t \in SubTypes}

DispatchOnly == UNCHANGED <<svcVars, rbVars, hbVars, auVars, ubVars, rspVars, objVars>>

\* A response arrives declaring content type ct.
Declare(ct) ==
    /\ content_type' = ct
    /\ strategy' = ""
    /\ DispatchOnly

\* _handle_content_type(content_type, response) picks the read method.
Dispatch ==
    /\ strategy = ""
    /\ strategy' = handle_content_type(content_type)
    /\ UNCHANGED content_type
    /\ DispatchOnly

DispatchNext ==
    \/ \E ct \in DeclaredTypes : Declare(ct)
    \/ Dispatch

\* HTTPService._handle_content_type on any declared content type.
SpecDispatch == Init /\ [][DispatchNext]_vars

(***************************************************************************)
(* A caller driving one URLBuilder                                         *)
(***************************************************************************)
BaseUrls == {"https://x/base", "https://x/base/", "http://y", ""}
Endpoints == {"y", "/y", "a b", "z", ""}

UrlOnly == UNCHANGED <<svcVars, rbVars, hbVars, ctVars, auVars, rspVars, objVars>>

\* URLBuilder.with_endpoint: the string returned, for the stored url u.
with_endpoint(u, value) == u \o "/" \o value

\* with_endpoint storing the url it returns.
with_endpoint_configuration_accumulating(u, value) == u \o "/" \o value

\* ... and the url that with_endpoint leaves in self._configuration.
with_endpoint_configuration(u, value) == u

\* URLBuilder(url)
URLBuilder_init(base) ==
    /\ ubUrl' = base
    /\ ubBase' = base
    /\ ubCalls' = <<>>
    /\ UrlOnly

\* with_endpoint(value): the call is kept with the one before it.
URLBuilder_with_endpoint(value) ==
    /\ ubCalls' = (IF Len(ubCalls) = 2 THEN Tail(ubCalls) ELSE ubCalls)
                      \o <<[value |-> value, returned |-> with_endpoint(ubUrl, value)]>>
    /\ ubUrl' = with_endpoint_configuration(ubUrl, value)
    /\ UNCHANGED ubBase
    /\ UrlOnly

UrlNext ==
    \/ \E base \in BaseUrls : URLBuilder_init(base)
    \/ \E value \in Endpoints : URLBuilder_with_endpoint(value)

\* URLBuilder: with_endpoint calls, any number, on any base url.
SpecUrl == Init /\ [][UrlNext]_vars

(***************************************************************************)
(* Authorization                                                           *)
(*                                                                         *)
(* A str is the sequence of its code points, a bytes object the sequence   *)
(* of its bytes.                                                           *)
(***************************************************************************)
\* The printable ASCII characters in the order of their codes: 32..95, then
\* 97..126 (the grave accent, 96, is left out).
Printable ==
    " !\"#$%&'()*+,-./0123456789:;<=>?@ABCDEFGHIJKLMNOPQRSTUVWXYZ[\\]^_abcdefghijklmnopqrstuvwxyz{|}~"

\* ord(ch), and the str of an ASCII literal.
Ord(ch) ==
    LET i == CHOOSE j \in 1..Len(Printable) : SubSeq(Printable, j, j) = ch
    IN  IF i <= 64 THEN 31 + i ELSE 32 + i
CustomArgs == {"Token", "ApiKey"}
Literals ==
    {"Authorization(password=", ", username=", ")", "*", "Basic ", ":", "Bearer ",
     " ", "Digest ", "OAuth ", "OAuth2 "} \cup CustomArgs
CodePoints ==
    [literal \in Literals |-> [i \in 1..Len(literal) |-> Ord(SubSeq(literal, i, i))]]
Str(literal) == CodePoints[literal]

\* str.encode("utf-8")
RECURSIVE encode_utf8(_)
encode_utf8(str) ==
    IF str = <<>> THEN <<>>
    ELSE LET cp == Head(str)
             bytes == IF cp < 128 THEN <<cp>>
                      ELSE IF cp < 2048
                      THEN <<192 + (cp \div 64), 128 + (cp % 64)>>
                      ELSE IF cp < 65536
                      THEN <<224 + (cp \div 4096), 128 + ((cp \div 64) % 64),
                             128 + (cp % 64)>>
                      ELSE <<240 + (cp \div 262144), 128 + ((cp \div 4096) % 64),
                             128 + ((cp \div 64) % 64), 128 + (cp % 64)>>
         IN  bytes \o encode_utf8(Tail(str))

\* bytes.decode("utf-8"), of well-formed UTF-8.
RECURSIVE decode_utf8(_)
decode_utf8(bytes) ==
    IF bytes = <<>> THEN <<>>
    ELSE IF bytes[1] < 128
    THEN <<bytes[1]>> \o decode_utf8(SubSeq(bytes, 2, Len(bytes)))
    ELSE IF bytes[1] < 224
    THEN <<((bytes[1] - 192) * 64) + (bytes[2] - 128)>>
             \o decode_utf8(SubSeq(bytes, 3, Len(bytes)))
    ELSE IF bytes[1] < 240
    THEN <<((bytes[1] - 224) * 4096) + ((bytes[2] - 128) * 64) + (bytes[3] - 128)>>
             \o decode_utf8(SubSeq(bytes, 4, Len(bytes)))
    ELSE <<((bytes[1] - 240) * 262144) + ((bytes[2] - 128) * 4096)
               + ((bytes[3] - 128) * 64) + (bytes[4] - 128)>>
             \o decode_utf8(SubSeq(bytes, 5, Len(bytes)))

\* The standard base64 alphabet (RFC 4648, section 4) and its padding.
B64Alphabet == "ABCDEFGHIJKLMNOPQRSTUVWXYZabcdefghijklmnopqrstuvwxyz0123456789+/"
B64Digits == [i \in 1..Len(B64Alphabet) |-> Ord(SubSeq(B64Alphabet, i, i))]
B64Digit(n) == B64Digits[n + 1]
B64Pad == Ord("=")

\* base64 encoding with the padding stripped.
RECURSIVE b64encode_padding_stripped(_)
b64encode_padding_stripped(bytes) ==
    IF bytes = <<>> THEN <<>>
    ELSE IF Len(bytes) = 1
    THEN <<B64Digit(bytes[1] \div 4), B64Digit((bytes[1] % 4) * 16)>>
    ELSE IF Len(bytes) = 2
    THEN <<B64Digit(bytes[1] \div 4),
           B64Digit(((bytes[1] % 4) * 16) + (bytes[2] \div 16)),
           B64Digit((bytes[2] % 16) * 4)>>
    ELSE <<B64Digit(bytes[1] \div 4),
           B64Digit(((bytes[1] % 4) * 16) + (bytes[2] \div 16)),
           B64Digit(((bytes[2] % 16) * 4) + (bytes[3] \div 64)),
           B64Digit(bytes[3] % 64)>>
             \o b64encode_padding_stripped(SubSeq(bytes, 4, Len(bytes)))

\* base64.b64encode: the bytes of the encoded text.
RECURSIVE b64encode(_)
b64encode(bytes) ==
    IF bytes = <<>> THEN <<>>
    ELSE IF Len(bytes) = 1
    THEN <<B64Digit(bytes[1] \div 4), B64Digit((bytes[1] % 4) * 16), B64Pad, B64Pad>>
    ELSE IF Len(bytes) = 2
    THEN <<B64Digit(bytes[1] \div 4),
           B64Digit(((bytes[1] % 4) * 16) + (bytes[2] \div 16)),
           B64Digit((bytes[2] % 16) * 4), B64Pad>>
    ELSE <<B64Digit(bytes[1] \div 4),
           B64Digit(((bytes[1] % 4) * 16) + (bytes[2] \div 16)),
           B64Digit(((bytes[2] % 16) * 4) + (bytes[3] \div 64)),
           B64Digit(bytes[3] % 64)>>
             \o b64encode(SubSeq(bytes, 4, Len(bytes)))

\* The mask of a password, "*" * len(password)
Mask(password) == [i \in 1..Len(password) |-> Str("*")[1]]

\* __repr__ printing the password as it is.
repr_unmasked(password, username) ==
    Str("Authorization(password=") \o password
        \o Str(", username=") \o username \o Str(")")

\* Authorization.__repr__
repr(password, username) ==
    Str("Authorization(password=") \o Mask(password)
        \o Str(", username=") \o username \o Str(")")

\* Authorization.basic
basic(password, username) ==
    Str("Basic ")
        \o decode_utf8(b64encode(encode_utf8(username \o Str(":") \o password)))

\* Authorization.bearer, custom, digest, oauth, oauth2
bearer(password, username) == Str("Bearer ") \o password
custom(password, username, scheme) == Str(scheme) \o Str(" ") \o password
digest(password, username) == Str("Digest ") \o password
oauth(password, username) == Str("OAuth ") \o password
oauth2(password, username) == Str("OAuth2 ") \o password

\* __init__ taking its positional arguments as (username, password).
init_username_first(first, second) == [password |-> second, username |-> first]

\* Authorization.__init__(self, password, username): the fields after the
\* call Authorization(first, second).
init(first, second) == [password |-> first, username |-> second]

\* The outcome of a call: the value returned, or the exception raised.
StrValue(str) == [kind |-> "str", value |-> str]
DictValue(key, item) == [kind |-> "dict", value |-> <<[key |-> key, item |-> item]>>]
Returned(value) == [raised |-> "", text |-> "", value |-> <<value>>]
Raised(type, text) == [raised |-> type, text |-> text, value |-> <<>>]

\* The schemes the annotation of header() lists.
Schemes == {"basic", "bearer", "custom", "digest", "oauth", "oauth2"}

\* getattr(self, name)(): the attribute of the object is looked up by name and
\* called without arguments.
getattr_call(password, username, name) ==
    CASE name = "basic" -> Returned(StrValue(basic(password, username)))
      [] name = "bearer" -> Returned(StrValue(bearer(password, username)))
      [] name = "digest" -> Returned(StrValue(digest(password, username)))
      [] name = "oauth" -> Returned(StrValue(oauth(password, username)))
      [] name = "oauth2" -> Returned(StrValue(oauth2(password, username)))
      [] name = "custom" ->
            Raised("TypeError",
                   "Authorization.custom() missing 1 required positional argument: 'scheme'")
      \* header() with its default scheme "basic"
      [] name = "header" ->
            Returned(DictValue("Authorization", StrValue(basic(password, username))))
      [] name \in {"__repr__", "__str__"} ->
            Returned(StrValue(repr(password, username)))
      \* the properties and the fields are str objects
      [] name \in {"password", "username", "_password", "_username"} ->
            Raised("TypeError", "'str' object is not callable")
      [] name = "__init__" ->
            Raised("TypeError",
                   "Authorization.__init__() missing 2 required positional arguments: 'password' and 'username'")
      [] OTHER ->
            Raised("AttributeError",
                   "'Authorization' object has no attribute '" \o name \o "'")

\* Authorization.header(scheme)
header(password, username, scheme) ==
    LET called == getattr_call(password, username, scheme)
    IN  IF called.raised # "" THEN called
        ELSE Returned(DictValue("Authorization", called.value[1]))

\* The characters of usernames and passwords: the tilde (one byte in UTF-8),
\* e-acute (two bytes) and the euro sign (three bytes).
CredentialChars == {126, 233, 8364}
Credentials == UNION {[1..n -> CredentialChars] : n \in 0..MaxLen}
\* The scheme arguments of header(): the six schemes, names of other
\* attributes of the object, and names of no attribute.
SchemeArgs ==
    Schemes \cup {"header", "username", "password", "_password", "__repr__",
                  "__str__", "__init__", "Basic", "token", ""}

AuthOnly == UNCHANGED <<svcVars, rbVars, hbVars, ctVars, ubVars, rspVars, objVars>>

\* Authorization(first, second)
Authorization_init(first, second) ==
    /\ auArgs = <<>>
    /\ auArgs' = <<first, second>>
    /\ auPassword' = init(first, second).password
    /\ auUsername' = init(first, second).username
    /\ auCall' = [name |-> "__init__", arg |-> ""]
    /\ auOutcome' = Raised("", "")
    /\ AuthOnly

\* A call on the object: the object is left as it is.
AuthCall(name, arg, outcome) ==
    /\ auArgs # <<>>
    /\ auCall' = [name |-> name, arg |-> arg]
    /\ auOutcome' = outcome
    /\ UNCHANGED <<auPassword, auUsername, auArgs>>
    /\ AuthOnly

Authorization_repr == AuthCall("__repr__", "", Returned(StrValue(repr(auPassword, auUsername))))
\* __str__ returns self.__repr__()
Authorization_str == AuthCall("__str__", "", Returned(StrValue(repr(auPassword, auUsername))))
Authorization_password == AuthCall("password", "", Returned(StrValue(auPassword)))
Authorization_username == AuthCall("username", "", Returned(StrValue(auUsername)))
Authorization_basic == AuthCall("basic", "", Returned(StrValue(basic(auPassword, auUsername))))
Authorization_bearer == AuthCall("bearer", "", Returned(StrValue(bearer(auPassword, auUsername))))
Authorization_custom(scheme) ==
    AuthCall("custom", scheme, Returned(StrValue(custom(auPassword, auUsername, scheme))))
Authorization_digest == AuthCall("digest", "", Returned(StrValue(digest(auPassword, auUsername))))
Authorization_header(scheme) ==
    AuthCall("header", scheme, header(auPassword, auUsername, scheme))
Authorization_oauth == AuthCall("oauth", "", Returned(StrValue(oauth(auPassword, auUsername))))
Authorization_oauth2 == AuthCall("oauth2", "", Returned(StrValue(oauth2(auPassword, auUsername))))

AuthNext ==
    \/ \E first \in Credentials, second \in Credentials : Authorization_init(first, second)
    \/ Authorization_repr
    \/ Authorization_str
    \/ Authorization_password
    \/ Authorization_username
    \/ Authorization_basic
    \/ Authorization_bearer
    \/ \E scheme \in CustomArgs : Authorization_custom(scheme)
    \/ Authorization_digest
    \/ \E scheme \in SchemeArgs : Authorization_header(scheme)
    \/ Authorization_oauth
    \/ Authorization_oauth2

\* Authorization: an object constructed once, then any calls on it.
SpecAuth == Init /\ [][AuthNext]_vars

(***************************************************************************)
(* HTTPResponse                                                            *)
(*                                                                         *)
(* An HTTPResponse constructed directly, then calls of its methods.  None  *)
(* of them assigns to a field.                                             *)
(***************************************************************************)
\* The status arguments: around 204 and around both ends of 200..299.
ResponseStatuses == {-1, 0, 199, 200, 201, 204, 205, 299, 300, 404}
\* start and end, in ticks of the clock; end may lie before start.
ResponseTimes == 0..MaxTime
\* The method arguments: members of HTTPMethod.
ResponseMethods == {"GET", "TRACE"}

ResponseOnly == UNCHANGED <<svcVars, rbVars, hbVars, ctVars, auVars, ubVars, objVars>>

\* HTTPResponse(body, end, headers, message, method, start, status, type, url)
HTTPResponse_init(body, end, method, start, status) ==
    /\ rsp = <<>>
    /\ rsp' = <<HTTPResponse(end, EmptyDict, "OK", method, start, status,
                             "application/json", "http://x/a", body)>>
    /\ rspArgs' = <<[body |-> body, end |-> end, method |-> method, start |-> start,
                     status |-> status]>>
    /\ rspCall' = [name |-> "__init__", value |-> <<>>]
    /\ ResponseOnly

\* A call on the response: the object is left as it is.
ResponseCall(name, value) ==
    /\ rsp # <<>>
    /\ rspCall' = [name |-> name, value |-> <<value>>]
    /\ UNCHANGED <<rsp, rspArgs>>
    /\ ResponseOnly

HTTPResponse_duration == ResponseCall("duration", rsp[1].duration)
HTTPResponse_status == ResponseCall("status", rsp[1].status)
HTTPResponse_empty == ResponseCall("empty", empty(rsp[1]))
HTTPResponse_success == ResponseCall("success", success(rsp[1]))
HTTPResponse_dict == ResponseCall("dict", dict(rsp[1]))

ResponseNext ==
    \/ \E body \in BodyArgs, end \in ResponseTimes, method \in ResponseMethods,
          start \in ResponseTimes, status \in ResponseStatuses :
              HTTPResponse_init(body, end, method, start, status)
    \/ HTTPResponse_duration
    \/ HTTPResponse_status
    \/ HTTPResponse_empty
    \/ HTTPResponse_success
    \/ HTTPResponse_dict

\* HTTPResponse: an object constructed once, then any calls on it.
SpecResponse == Init /\ [][ResponseNext]_vars

(***************************************************************************)
(* The objects of verb calls                                               *)
(*                                                                         *)
(* Verb calls followed by the objects they create and use.  An object is   *)
(* the number it was created as; 0 stands for no object.                   *)
(***************************************************************************)
\* The verbs whose entry point takes a data argument.
DataVerbs == {"POST", "PUT", "DELETE", "PATCH"}

\* The object a parameter of a verb is bound to when the caller omits the
\* argument: the default value the def statement created.
default(v, parameter) ==
    CHOOSE i \in 1..Len(DefaultParameters) :
        DefaultParameters[i] = [verb |-> v, parameter |-> parameter]

\* The object a parameter is bound to: the default when the caller omits the
\* argument, the caller's own object (here a new one) otherwise.
bind(v, parameter, omitted, fresh) ==
    IF omitted THEN default(v, parameter) ELSE fresh

ObjectsOnly == UNCHANGED <<svcVars, rbVars, hbVars, ctVars, auVars, ubVars, rspVars>>

ThisCall == objCalls[Len(objCalls)]
SetThisCall(call) == [objCalls EXCEPT ![Len(objCalls)] = call]

\* HTTPService.<verb>(url, data, headers): the parameters are bound, to the
\* defaults or to the two objects the caller made for this call.
Bind(v, omitData, omitHeaders) ==
    /\ objPc = "idle"
    /\ Len(objCalls) < MaxCalls
    /\ objPc' = "bound"
    /\ objHeap' = objHeap + 2
    /\ objCalls' = Append(objCalls,
          [verb |-> v,
           omitted |-> {p \in {"data", "headers"} :
                           \/ p = "data" /\ v \in DataVerbs /\ omitData
                           \/ p = "headers" /\ v \in HeaderVerbs /\ omitHeaders},
           data |-> IF v \in DataVerbs
                    THEN bind(v, "data", omitData, objHeap + 1) ELSE 0,
           headers |-> IF v \in HeaderVerbs
                       THEN bind(v, "headers", omitHeaders, objHeap + 2) ELSE 0,
           builder |-> 0,
           session |-> 0])
    /\ ObjectsOnly

\* builder = HTTPResponseBuilder(); GET hands it the literal {} as headers.
NewBuilder ==
    /\ objPc = "bound"
    /\ objPc' = "built"
    /\ objHeap' = objHeap + 2
    /\ objCalls' = SetThisCall(
          [ThisCall EXCEPT !.builder = objHeap + 1,
                           !.headers = IF ThisCall.verb = "GET"
                                       THEN objHeap + 2 ELSE ThisCall.headers])
    /\ ObjectsOnly

\* async with aiohttp.ClientSession() as session
NewSession ==
    /\ objPc = "built"
    /\ objPc' = "session"
    /\ objHeap' = objHeap + 1
    /\ objCalls' = SetThisCall([ThisCall EXCEPT !.session = objHeap + 1])
    /\ ObjectsOnly

\* The call returns or raises.
Leave ==
    /\ objPc = "session"
    /\ objPc' = "idle"
    /\ UNCHANGED <<objHeap, objCalls>>
    /\ ObjectsOnly

ObjectsNext ==
    \/ \E v \in Verbs, omitData \in BOOLEAN, omitHeaders \in BOOLEAN :
          /\ v \notin DataVerbs => omitData
          /\ v \notin HeaderVerbs => omitHeaders
          /\ Bind(v, omitData, omitHeaders)
    \/ NewBuilder
    \/ NewSession
    \/ Leave

\* Verb calls made one after another, followed by their objects.
SpecObjects == Init /\ [][ObjectsNext]_vars

(***************************************************************************)
(* Properties                                                              *)
(***************************************************************************)
\* The verb call has ended: asyncio.run returned or raised.
Ended == pc \in {"returned", "raised"}

\* The fields the coroutine records only after raise_for_status.
LateFields == {"status", "message", "type", "body", "end"}

\* C1: in a verb call whose response carries a status the transport reports
\* as a failure (400 and above), once the coroutine has looked at the response
\* the call is failing with the status error, which carries the status and the
\* reason; the builder holds none of status, message, type, body, end; build()
\* was not invoked; no HTTPResponse was constructed or returned.
C1_FailureStatusRaisesBeforeRecording ==
    (response # <<>> /\ response[1].status >= 400 /\ pc # "response") =>
        /\ pc \in {"unwinding", "raised"}
        /\ error = <<Exception("ClientResponseError", response[1].status,
                               response[1].reason)>>
        /\ DOMAIN builder \cap LateFields = {}
        /\ builds = 0
        /\ constructed = <<>>
        /\ result = <<>>

\* C1's case: a call that answered 404 has raised the status error.
C1_Witness ==
    /\ pc = "raised"
    /\ response # <<>>
    /\ response[1].status = 404
    /\ error # <<>>
    /\ error[1].type = "ClientResponseError"

\* The body of the response can be decoded as its content type asks.
Decodable(r) == handle_response(r.content_type, r).raised = ""

\* The response r of the call is fully populated: every field of the record
\* is set from the call.
Populated(r) ==
    /\ r.method = verb
    /\ r.url = url
    /\ r.status = response[1].status
    /\ r.message = response[1].reason
    /\ r.end >= r.start

\* C2: every verb call whose exchange completes with a success status (and a
\* body that decodes) returns a fully populated HTTPResponse whose method is
\* the verb and whose url is the requested url.
C2_SuccessStatusReturnsResponse ==
    (Ended /\ response # <<>> /\ response[1].status \in 200..299
        /\ Decodable(response[1])) =>
        /\ pc = "returned"
        /\ result # <<>>
        /\ Populated(result[1])

\* C3: every HTTPResponse a verb call returns satisfies success(); a call
\* whose response carries a status outside 200..299 fails and yields no
\* HTTPResponse.
C3_NonSuccessStatusFails ==
    /\ result # <<>> => success(result[1])
    /\ (Ended /\ response # <<>> /\ response[1].status \notin 200..299) =>
           /\ pc = "raised"
           /\ result = <<>>

\* C4: once a verb call has returned or raised, by whichever path, no session
\* it opened is still open.
C4_SessionReleasedOnEveryExit ==
    Ended => sessions = {}

\* C4's case: a call that opened a session has raised from inside the session
\* block, here on a body that does not decode.
C4_Witness ==
    /\ pc = "raised"
    /\ opened = 1
    /\ sessions = {}
    /\ error # <<>>
    /\ error[1].type = "JSONDecodeError"

\* C5: the dispatch picks exactly one read method for every declared content
\* type: json exactly for "application/json"; the raw bytes exactly for
\* "application/octet-stream" and the types that begin with "image/"; the text
\* for "application/xml" and for every other type.
C5_DispatchIsTotalAndExact ==
    strategy # "" =>
        /\ strategy \in {"json", "read", "text"}
        /\ strategy = "json" <=> content_type = "application/json"
        /\ strategy = "read" <=>
               \/ content_type = "application/octet-stream"
               \/ startswith(content_type, "image/")
        /\ content_type = "application/xml" => strategy = "text"

\* C5's case: the dispatch has run on a type that begins with "image/".
C5_Witness ==
    /\ content_type = "image/png"
    /\ strategy = "read"

\* The payload of r is a JSON object.
JsonObject(r) ==
    /\ response_json(r).raised = ""
    /\ response_json(r).value[1].kind = "dict"

\* C6: a GET whose response has a success status, declares
\* "application/json" and carries a JSON object returns an HTTPResponse whose
\* body is the decoded object, whose type is the declared content type, whose
\* status is the transport's status, and for which success() is true.
C6_JsonGetReturnsDecodedObject ==
    (Ended /\ verb = "GET" /\ response # <<>>
        /\ response[1].status \in 200..299
        /\ response[1].content_type = "application/json"
        /\ JsonObject(response[1])) =>
        /\ pc = "returned"
        /\ result # <<>>
        /\ result[1].body = response_json(response[1]).value[1]
        /\ result[1].type = response[1].content_type
        /\ result[1].status = response[1].status
        /\ success(result[1])

\* C6's case: a GET answered 200, application/json, {"id": 1} has returned.
C6_Witness ==
    /\ pc = "returned"
    /\ verb = "GET"
    /\ response[1].status = 200
    /\ response[1].content_type = "application/json"
    /\ response[1].payload = "{\"id\": 1}"
    /\ result[1].body = PyValue("dict", "{'id': 1}")

\* The eight fields build() requires.
Required == {"end", "headers", "message", "method", "start", "status", "type", "url"}

\* The outcome of the last build() call.
LastOutcome == outcomes[Len(outcomes)]

\* C7: build() on a configuration that lacks a required field raises an error
\* that names a field that is missing, and constructs no HTTPResponse; on a
\* configuration with all eight required fields and no body it returns an
\* HTTPResponse whose body is the empty mapping.
C7_BuildRequiresEveryField ==
    outcomes # <<>> =>
        /\ Required \ DOMAIN preBuild # {} =>
               /\ LastOutcome.raised
               /\ LastOutcome.key \in Required \ DOMAIN preBuild
               /\ LastOutcome.response = <<>>
        /\ (Required \subseteq DOMAIN preBuild /\ "body" \notin DOMAIN preBuild) =>
               /\ ~LastOutcome.raised
               /\ Len(LastOutcome.response) = 1
               /\ LastOutcome.response[1].body = EmptyDict

\* C7's case: build() was called with every required field but status set.
C7_Witness ==
    /\ outcomes # <<>>
    /\ Required \ DOMAIN preBuild = {"status"}
    /\ LastOutcome.raised
    /\ LastOutcome.key = "status"

\* C8 as stated: after any sequence of with_X calls the configuration holds,
\* for each field, the argument of the last call made for it, and no field
\* that was never set.
C8_FieldHoldsLastArgument ==
    /\ DOMAIN configuration = DOMAIN lastArg
    /\ \A f \in DOMAIN lastArg : configuration[f] = lastArg[f]

\* C8, amended: each with_X call changes field X alone; after any sequence of
\* calls every field but body holds the argument of the last call made for it,
\* body holds the last argument when that is a mapping and {"body": argument}
\* otherwise, and a field never set is absent.
C8_FieldHoldsLastArgumentBodyAsMapping ==
    /\ DOMAIN configuration = DOMAIN lastArg
    /\ \A f \in DOMAIN lastArg \ {"body"} : configuration[f] = lastArg[f]
    /\ "body" \in DOMAIN lastArg =>
           configuration["body"] =
               IF isinstance_dict(lastArg["body"])
               THEN lastArg["body"]
               ELSE BodyDict(lastArg["body"])

\* C8's case: some fields are set, others not, and the last body argument was
\* no mapping.
C8_Witness ==
    /\ DOMAIN lastArg = {"body", "end", "status"}
    /\ lastArg["body"] = PyValue("str", "'hello'")
    /\ configuration["body"] = BodyDict(PyValue("str", "'hello'"))
    /\ configuration["status"] = 204

\* C9: build() leaves the configuration as it found it, and two build() calls
\* with no with_X call in between have the same outcome: HTTPResponse records
\* with equal fields, or the same error.
C9_BuildKeepsConfiguration ==
    outcomes # <<>> =>
        /\ configuration = preBuild
        /\ Len(outcomes) = 2 => outcomes[1] = outcomes[2]

\* C9's case: build() has returned an HTTPResponse twice in a row.
C9_Witness ==
    /\ Len(outcomes) = 2
    /\ ~outcomes[1].raised
    /\ ~outcomes[2].raised
    /\ Len(outcomes[2].response) = 1

\* C10: build() returns the mapping that holds, for every key ever added to
\* the builder, the value of the last add for that key, and no other key; add
\* returns the builder it was called on.
C10_BuildReturnsLastAdded ==
    /\ hbOp.op = "build" =>
           /\ hbReturned.kind = "mapping"
           /\ Mapping(hbReturned) = hbAdded[hbOp.on]
    /\ hbOp.op = "add" =>
           hbReturned = [kind |-> "builder", ref |-> hbOp.on]

\* C10's case: build() after A was added twice and B once.
C10_Witness ==
    /\ hbOp = [op |-> "build", on |-> "b1"]
    /\ DOMAIN hbAdded["b1"] = {"A", "B"}
    /\ Mapping(hbReturned)["A"] = "3"
    /\ Mapping(hbReturned)["B"] = "2"
    /\ DOMAIN hb["b2"] = {}

\* C11: build() returns a snapshot: a mapping returned by an earlier build()
\* still holds what it held when it was returned, whatever was added to the
\* builder afterwards.
C11_BuildReturnsSnapshot ==
    hbHeld # <<>> => Mapping(hbHeld[1].returned) = hbHeld[1].seen

\* C12: with_endpoint(segment) returns the constructor's base url, "/" and
\* the segment, and leaves the stored base url as it was: every result
\* depends on the base and on its own segment alone, whatever calls came
\* before.
C12_WithEndpointJoinsWithoutAccumulating ==
    /\ ubUrl = ubBase
    /\ \A i \in DOMAIN ubCalls :
           ubCalls[i].returned = ubBase \o "/" \o ubCalls[i].value

\* C12's case: two calls with different segments on "https://x/base".
C12_Witness ==
    /\ ubBase = "https://x/base"
    /\ Len(ubCalls) = 2
    /\ ubCalls[1] = [value |-> "y", returned |-> "https://x/base/y"]
    /\ ubCalls[2] = [value |-> "z", returned |-> "https://x/base/z"]

\* The strings the renderer of a scheme can produce for the object.
RendererOutputs(scheme) ==
    CASE scheme = "basic" -> {basic(auPassword, auUsername)}
      [] scheme = "bearer" -> {bearer(auPassword, auUsername)}
      [] scheme = "custom" -> {custom(auPassword, auUsername, s) : s \in CustomArgs}
      [] scheme = "digest" -> {digest(auPassword, auUsername)}
      [] scheme = "oauth" -> {oauth(auPassword, auUsername)}
      [] scheme = "oauth2" -> {oauth2(auPassword, auUsername)}

\* C13: for every scheme in {basic, bearer, custom, digest, oauth, oauth2},
\* header(scheme) returns a mapping with exactly one entry, whose key is
\* "Authorization" and whose value is the string of that scheme's renderer.
C13_HeaderReturnsRendererOutput ==
    (auCall.name = "header" /\ auCall.arg \in Schemes) =>
        /\ auOutcome.raised = ""
        /\ auOutcome.value[1].kind = "dict"
        /\ Len(auOutcome.value[1].value) = 1
        /\ auOutcome.value[1].value[1].key = "Authorization"
        /\ auOutcome.value[1].value[1].item.kind = "str"
        /\ auOutcome.value[1].value[1].item.value \in RendererOutputs(auCall.arg)

\* The text of an error names the scheme.
Identifies(text, scheme) ==
    \E i \in 1..(Len(text) - Len(scheme) + 1) :
        SubSeq(text, i, i + Len(scheme) - 1) = scheme

\* C14: for every scheme argument that is not one of the six schemes, names
\* of other attributes of the object included, header(scheme) fails with an
\* error identifying the scheme and returns no mapping.
C14_InvalidSchemeFails ==
    (auCall.name = "header" /\ auCall.arg \notin Schemes) =>
        /\ auOutcome.raised # ""
        /\ auOutcome.value = <<>>
        /\ Identifies(auOutcome.text, auCall.arg)

\* Padded base64 text over the standard alphabet, and the bytes it decodes to.
IsB64Digit(c) == \E n \in 1..64 : B64Digits[n] = c
B64Value(c) == (CHOOSE n \in 1..64 : B64Digits[n] = c) - 1
PaddedBase64(text) ==
    /\ Len(text) % 4 = 0
    /\ \A i \in 1..Len(text) :
          \/ IsB64Digit(text[i])
          \/ /\ text[i] = B64Pad
             /\ i >= Len(text) - 1
             /\ text[Len(text)] = B64Pad
RECURSIVE b64decode(_)
b64decode(text) ==
    IF text = <<>> THEN <<>>
    ELSE LET a == B64Value(text[1])
             b == B64Value(text[2])
         IN  IF text[3] = B64Pad
             THEN <<(a * 4) + (b \div 16)>>
             ELSE IF text[4] = B64Pad
             THEN <<(a * 4) + (b \div 16),
                    ((b % 16) * 16) + (B64Value(text[3]) \div 4)>>
             ELSE <<(a * 4) + (b \div 16),
                    ((b % 16) * 16) + (B64Value(text[3]) \div 4),
                    ((B64Value(text[3]) % 4) * 64) + B64Value(text[4])>>
                      \o b64decode(SubSeq(text, 5, Len(text)))

\* The UTF-8 bytes of a character, by the bit layout of RFC 3629.
Utf8Of(cp) ==
    IF cp < 128 THEN <<cp>>
    ELSE IF cp < 2048 THEN <<192 + (cp \div 64), 128 + (cp % 64)>>
    ELSE <<224 + (cp \div 4096), 128 + ((cp \div 64) % 64), 128 + (cp % 64)>>
RECURSIVE Utf8(_)
Utf8(str) == IF str = <<>> THEN <<>> ELSE Utf8Of(Head(str)) \o Utf8(Tail(str))

\* C15: basic() is "Basic " followed by a standard-alphabet, padded base64
\* string that decodes back to exactly the UTF-8 bytes of
\* "{username}:{password}".
C15_BasicDecodesToCredentials ==
    auCall.name = "basic" =>
        /\ auOutcome.raised = ""
        /\ auOutcome.value[1].kind = "str"
        /\ LET out == auOutcome.value[1].value
               text == SubSeq(out, 7, Len(out))
           IN  /\ Len(out) >= 6
               /\ SubSeq(out, 1, 6) = <<66, 97, 115, 105, 99, 32>>
               /\ PaddedBase64(text)
               /\ b64decode(text) = Utf8(auUsername \o <<58>> \o auPassword)

C15_Witness ==
    /\ auCall.name = "basic"
    /\ auUsername = <<233>>
    /\ auPassword = <<8364, 126>>
    /\ Len(auOutcome.value[1].value) = 6 + 12

\* C16 (as the code has it): for Authorization(a, b) built positionally, the
\* password accessor returns a, the username accessor returns b, and bearer()
\* renders "Bearer " followed by a.
C16_ConstructedPasswordFirst ==
    /\ auCall.name = "password" => auOutcome.value[1].value = auArgs[1]
    /\ auCall.name = "username" => auOutcome.value[1].value = auArgs[2]
    /\ auCall.name = "bearer" =>
          auOutcome.value[1].value = Str("Bearer ") \o auArgs[1]

\* C16: Authorization is constructed with its arguments in the order
\* (username, password): for Authorization(a, b) built positionally, the
\* username accessor returns a, the password accessor returns b, and bearer()
\* renders "Bearer " followed by b.
C16_ConstructedUsernameFirst ==
    /\ auCall.name = "username" => auOutcome.value[1].value = auArgs[1]
    /\ auCall.name = "password" => auOutcome.value[1].value = auArgs[2]
    /\ auCall.name = "bearer" =>
          auOutcome.value[1].value = Str("Bearer ") \o auArgs[2]

C16_Witness ==
    /\ auCall.name = "bearer"
    /\ auArgs = <<<<8364>>, <<126, 233>>>>
    /\ auOutcome.value[1].value = Str("Bearer ") \o <<8364>>

\* C17: for a non-empty password, str and repr never contain the password in
\* cleartext: the password position holds only mask characters, and two
\* objects that differ only in passwords of equal length have identical
\* string representations.
C17_RepresentationMasksPassword ==
    (auCall.name \in {"__repr__", "__str__"} /\ auPassword # <<>>) =>
        /\ auOutcome.raised = ""
        /\ auOutcome.value[1].kind = "str"
        /\ LET out == auOutcome.value[1].value
               open == Str("Authorization(password=")
               n == Len(auPassword)
           IN  /\ Len(out) >= Len(open) + n
               /\ SubSeq(out, 1, Len(open)) = open
               /\ \A i \in 1..n : out[Len(open) + i] = 42
               /\ SubSeq(out, Len(open) + n + 1, Len(out))
                     = Str(", username=") \o auUsername \o Str(")")
               /\ \A other \in Credentials :
                     Len(other) = n => repr(other, auUsername) = out

C17_Witness ==
    /\ auCall.name = "__str__"
    /\ auPassword = <<8364, 126>>
    /\ auUsername = <<233>>
    /\ auOutcome.raised = ""

\* C18: for every integer status, empty() is true exactly when status == 204
\* and success() is true exactly when 200 <= status < 300.
C18_EmptyAndSuccessByStatus ==
    /\ rspCall.name = "empty" =>
          (rspCall.value[1] <=> rspArgs[1].status = 204)
    /\ rspCall.name = "success" =>
          (rspCall.value[1] <=> rspArgs[1].status \in 200..299)

C18_Witness ==
    /\ rspCall.name = "success"
    /\ rspArgs[1].status = 300
    /\ ~rspCall.value[1]

\* C19 (as the code has it): a response with status 204 has empty() == true
\* and success() == true; a response with status 201 has success() == true.
C19_NoContentIsEmptyAndSuccessful ==
    /\ (rspCall.name = "empty" /\ rspArgs[1].status = 204) => rspCall.value[1]
    /\ (rspCall.name = "success" /\ rspArgs[1].status = 204) => rspCall.value[1]
    /\ (rspCall.name = "success" /\ rspArgs[1].status = 201) => rspCall.value[1]

\* C19: an HTTPResponse with status 204 has empty() == true and
\* success() == false; an HTTPResponse with status 201 has success() == true.
C19_NoContentIsEmptyAndNotSuccessful ==
    /\ (rspCall.name = "empty" /\ rspArgs[1].status = 204) => rspCall.value[1]
    /\ (rspCall.name = "success" /\ rspArgs[1].status = 204) => ~rspCall.value[1]
    /\ (rspCall.name = "success" /\ rspArgs[1].status = 201) => rspCall.value[1]

C19_Witness ==
    /\ rspCall.name = "success"
    /\ rspArgs[1].status = 204
    /\ rspCall.value[1]

\* C20: duration equals end minus start, is computed once at construction and
\* never changes afterwards; it is >= 0 whenever end >= start, and
\* construction does not reject end < start (the duration is then negative).
C20_DurationIsEndMinusStart ==
    rsp # <<>> =>
        /\ rsp[1].duration = rspArgs[1].end - rspArgs[1].start
        /\ rspArgs[1].end >= rspArgs[1].start => rsp[1].duration >= 0
        /\ rspArgs[1].end < rspArgs[1].start => rsp[1].duration < 0
        /\ rspCall.name = "duration" =>
              rspCall.value[1] = rspArgs[1].end - rspArgs[1].start

C20_Witness ==
    /\ rspCall.name = "duration"
    /\ rspArgs[1].end = 0
    /\ rspArgs[1].start = 1
    /\ rspCall.value[1] = -1

\* Text of the pattern YYYY-MM-DD HH:MM:SS, and the numbers written in it.
IsDigit(ch) == \E i \in 1..10 : SubSeq("0123456789", i, i) = ch
DigitValue(ch) == (CHOOSE i \in 1..10 : SubSeq("0123456789", i, i) = ch) - 1
MatchesPattern(text) ==
    /\ Len(text) = 19
    /\ \A i \in 1..19 :
          LET ch == SubSeq(text, i, i)
          IN  IF i \in {5, 8} THEN ch = "-"
              ELSE IF i = 11 THEN ch = " "
              ELSE IF i \in {14, 17} THEN ch = ":"
              ELSE IsDigit(ch)
RECURSIVE Number(_)
Number(text) ==
    IF text = "" THEN 0
    ELSE (10 * Number(SubSeq(text, 1, Len(text) - 1)))
             + DigitValue(SubSeq(text, Len(text), Len(text)))
\* The text names the second in which the time lies.
RendersToSeconds(text, ticks) ==
    /\ MatchesPattern(text)
    /\ Number(SubSeq(text, 1, 4)) = datetime(ticks).year
    /\ Number(SubSeq(text, 6, 7)) = datetime(ticks).month
    /\ Number(SubSeq(text, 9, 10)) = datetime(ticks).day
    /\ Number(SubSeq(text, 12, 13)) = datetime(ticks).hour
    /\ Number(SubSeq(text, 15, 16)) = datetime(ticks).minute
    /\ Number(SubSeq(text, 18, 19)) = datetime(ticks).second

\* C21: dict() returns a record whose key set is exactly {body, duration, end,
\* headers, message, method, start, status, type, url}, in which method is the
\* verb's wire token string, start and end are seconds-precision text of the
\* pattern YYYY-MM-DD HH:MM:SS, and every other entry equals the field.
C21_DictRendersTheResponse ==
    rspCall.name = "dict" =>
        LET d == rspCall.value[1]
        IN  /\ DOMAIN d = {"body", "duration", "end", "headers", "message", "method",
                           "start", "status", "type", "url"}
            /\ d.method = rspArgs[1].method
            /\ d.method \in {"GET", "POST", "PUT", "DELETE", "PATCH", "HEAD",
                             "OPTIONS", "TRACE"}
            /\ RendersToSeconds(d.start, rspArgs[1].start)
            /\ RendersToSeconds(d.end, rspArgs[1].end)
            /\ d.body = rsp[1].body
            /\ d.duration = rsp[1].duration
            /\ d.headers = rsp[1].headers
            /\ d.message = rsp[1].message
            /\ d.status = rsp[1].status
            /\ d.type = rsp[1].type
            /\ d.url = rsp[1].url

C21_Witness ==
    /\ rspCall.name = "dict"
    /\ rspArgs[1].method = "TRACE"
    /\ rspArgs[1].start = 0
    /\ rspArgs[1].end = 1
    /\ rspCall.value[1].start = "2024-12-31 23:59:59"
    /\ rspCall.value[1].end = "2025-01-01 00:00:00"

\* C22: every verb call performs at most one request/response exchange with
\* the transport: no path of a verb call (success, failure status, transport
\* failure) issues a second request, retries, or falls back to another one.
C22_AtMostOneExchange ==
    /\ exchanges <= 1
    /\ opened <= 1
    /\ response # <<>> => exchanges = 1
    /\ result # <<>> => exchanges = 1

C22_Witness ==
    /\ pc = "raised"
    /\ exchanges = 1
    /\ response = <<>>
    /\ error[1].type = "ClientConnectionError"

\* The objects a call uses, and those it uses for arguments the caller omitted.
ObjectsOf(call) == {call.builder, call.session, call.data, call.headers} \ {0}
OmittedOf(call) == {call[p] : p \in call.omitted} \ {0}

\* C23: no two verb calls share a transport session or any other mutable
\* object: each call creates its own builder and session, and the headers and
\* data mappings a call uses when the caller omits them are not objects shared
\* with any other call.
C23_NoObjectSharedBetweenCalls ==
    \A i \in 1..Len(objCalls), j \in 1..Len(objCalls) :
        i # j =>
            /\ objCalls[i].builder \notin ObjectsOf(objCalls[j])
            /\ objCalls[i].session \notin ObjectsOf(objCalls[j])
            /\ OmittedOf(objCalls[i]) \cap ObjectsOf(objCalls[j]) = {}

\* C24: in every verb call the builder records method, url and the start
\* timestamp before the session is acquired and the request issued; the status
\* check precedes the recording of status, message, type and body; the end
\* timestamp is captured only after the body has been decoded and while the
\* session is still open; build() runs after the session is released.  Hence,
\* under a non-decreasing clock, every returned HTTPResponse has end >= start
\* and duration >= 0.
C24_StepsInOrder ==
    /\ pc = "prepared" => opened = 0 /\ exchanges = 0
    /\ (opened > 0 \/ exchanges > 0) =>
          /\ {"method", "url", "start"} \subseteq DOMAIN builder
          /\ builder["method"] = verb
          /\ builder["url"] = url
    /\ exchanges > 0 => opened > 0
    /\ {"status", "message", "type", "body"} \cap DOMAIN builder # {} =>
          /\ response # <<>>
          /\ response[1].status < 400
    /\ "end" \in DOMAIN builder =>
          /\ "body" \in DOMAIN builder
          /\ builder["end"] >= builder["start"]
    /\ pc = "recorded" => "end" \in DOMAIN builder /\ sessions = {opened}
    /\ pc = "decoding" => "end" \notin DOMAIN builder /\ sessions = {opened}
    /\ builds > 0 => sessions = {}
    /\ pc = "closed" => sessions = {} /\ builds = 0
    /\ result # <<>> =>
          /\ result[1].end >= result[1].start
          /\ result[1].duration >= 0

C24_Witness ==
    /\ pc = "returned"
    /\ builds = 1
    /\ sessions = {}
    /\ result[1].start = 0
    /\ result[1].end = 2
    /\ result[1].duration = 2

\* The payload the call decoded, and the single-entry mapping {"body": payload}.
Payload == handle_response(response[1].content_type, response[1]).value[1]
Wrapped(value) == [kind |-> "dict", repr |-> "{'body': " \o value.repr \o "}"]

\* C25: with_body(value) stores value itself when it is a mapping and
\* otherwise the single-entry mapping {"body": value}; consequently the body of
\* every HTTPResponse produced through the builder is a mapping, and a verb
\* call whose decoded payload is text, bytes or a JSON non-object returns
\* body == {"body": payload}.
C25_BodyIsStoredAsMapping ==
    /\ "body" \in DOMAIN builder =>
          /\ Payload.kind = "dict" => builder["body"] = Payload
          /\ Payload.kind # "dict" => builder["body"] = Wrapped(Payload)
    /\ \A i \in 1..Len(constructed) : constructed[i].body.kind = "dict"
    /\ result # <<>> =>
          /\ result[1].body.kind = "dict"
          /\ Payload.kind \in {"str", "bytes", "list"} =>
                result[1].body = Wrapped(Payload)

C25_Witness ==
    /\ pc = "returned"
    /\ response[1].content_type = "application/json"
    /\ response[1].payload = "[1]"
    /\ result[1].body = [kind |-> "dict", repr |-> "{'body': [1]}"]

====
